---- MODULE Spec2Model ----
(***************************************************************************)
(* Memory search manager selection, the primary-manager cache and the      *)
(* FallbackMemoryManager wrapper (search-manager.ts).                       *)
(*                                                                         *)
(* Every `await` of the source is a point where another asynchronous task  *)
(* may run; the code between two awaits is one atomic action.              *)
(***************************************************************************)
EXTENDS Integers, Sequences, FiniteSets, TLC

(***************************************************************************)
(* Bounds                                                                  *)
(***************************************************************************)
\* number of getMemorySearchManager calls that may be in progress together
NumGets == 2
\* number of wrappers constructed in one behaviour
MaxDecs == 2
\* number of method calls issued on wrappers in one behaviour
NumCalls == 2

Getters == 1..NumGets
Callers == 1..NumCalls
DecIds == 1..MaxDecs

(***************************************************************************)
(* Values                                                                  *)
(***************************************************************************)
None == "none"
\* no error message
NoMsg == <<>>
\* no cache key
NoKey == <<>>
Agents == {"main"}
\* the message of the error the primary raises to call c
ErrMsg(c) == <<"primary error", c>>

\* the arguments of a method call: search(query, opts) with or without
\* opts.sessionKey; the other methods' arguments are not told apart
NoArgs == [query |-> None, sessionKey |-> None]
PlainSearch == [query |-> "hello", sessionKey |-> None]
SearchArgs == {PlainSearch,
               [query |-> "hello", sessionKey |-> "whatsapp:direct-chat:123"]}
OpArgs(op) == IF op = "search" THEN SearchArgs ELSE {NoArgs}

\* JSON values: a string, an object (entries in insertion order) or an array
Str(s) == [t |-> "str", s |-> s, e |-> <<>>]
Obj(entries) == [t |-> "obj", s |-> "", e |-> entries]
Arr(items) == [t |-> "arr", s |-> "", e |-> [i \in DOMAIN items |-> [k |-> "", v |-> items[i]]]]
Ent(k, v) == [k |-> k, v |-> v]

\* resolved provider configs: two insertion orders of one config
CfgAB == Obj(<<Ent("command", Str("qmd")), Ent("timeoutMs", Str("4000"))>>)
CfgBA == Obj(<<Ent("timeoutMs", Str("4000")), Ent("command", Str("qmd"))>>)
Configs == {CfgAB, CfgBA}

\* the order of localeCompare on the property names in use
LocaleRank(k) ==
  CASE k = "command" -> 1
    [] k = "paths" -> 2
    [] k = "timeoutMs" -> 3
    [] OTHER -> 0

\* a comparison that leaves the property names in their insertion order
LocaleLess_Never(a, b) == FALSE

\* a.localeCompare(b) < 0
LocaleLess(a, b) == LocaleRank(a) < LocaleRank(b)

\* Object.keys(value).toSorted(localeCompare): insertion of each entry in key order
RECURSIVE InsertEntry(_, _)
InsertEntry(sorted, ent) ==
  IF sorted = <<>> THEN <<ent>>
  ELSE IF LocaleLess(ent.k, Head(sorted).k) THEN <<ent>> \o sorted
  ELSE <<Head(sorted)>> \o InsertEntry(Tail(sorted), ent)

RECURSIVE ToSorted(_)
ToSorted(entries) ==
  IF entries = <<>> THEN <<>>
  ELSE InsertEntry(ToSorted(SubSeq(entries, 1, Len(entries) - 1)), entries[Len(entries)])

RECURSIVE sortValue(_)
sortValue(value) ==
  IF value.t = "arr"
    THEN [value EXCEPT !.e = [i \in DOMAIN value.e |-> Ent("", sortValue(value.e[i].v))]]
  ELSE IF value.t = "obj"
    THEN LET sortedEntries == ToSorted(value.e)
         IN [value EXCEPT !.e = [i \in DOMAIN sortedEntries |->
                                   Ent(sortedEntries[i].k, sortValue(sortedEntries[i].v))]]
  ELSE value

\* JSON.stringify as the sequence of tokens it writes
RECURSIVE Stringify(_)
RECURSIVE StringifyEntries(_, _)
StringifyEntries(entries, isObj) ==
  IF entries = <<>> THEN <<>>
  ELSE (IF isObj THEN <<Head(entries).k, ":">> ELSE <<>>)
       \o Stringify(Head(entries).v)
       \o (IF Len(entries) > 1 THEN <<",">> ELSE <<>>)
       \o StringifyEntries(Tail(entries), isObj)
Stringify(value) ==
  IF value.t = "str" THEN <<value.s>>
  ELSE IF value.t = "obj" THEN <<"{">> \o StringifyEntries(value.e, TRUE) \o <<"}">>
  ELSE <<"[">> \o StringifyEntries(value.e, FALSE) \o <<"]">>

stableSerialize(value) == Stringify(sortValue(value))

buildPrimaryCacheKey(agentId, backend, config) ==
  <<agentId, ":", backend, ":">> \o stableSerialize(config)

\* resolved configs of up to MaxDepth levels: objects of two properties in either
\* insertion order, whose values are strings, objects, or arrays of one object
MaxDepth == 2
Leaves == {Str("qmd"), Str("4000")}
RECURSIVE ConfigsOfDepth(_)
ConfigsOfDepth(n) ==
  IF n = 0 THEN Leaves
  ELSE LET inner == ConfigsOfDepth(n - 1)
           nested == (inner \ Leaves) \cup {Arr(<<o>>) : o \in inner \ Leaves}
           first == IF n = 1 THEN Leaves ELSE nested
           names == IF n = 1 THEN <<"command", "timeoutMs">> ELSE <<"paths", "command">>
       IN inner \cup {Obj(<<Ent(names[1], v), Ent(names[2], w)>>) : v \in first, w \in Leaves}
                \cup {Obj(<<Ent(names[2], w), Ent(names[1], v)>>) : v \in first, w \in Leaves}
KeyConfigs == ConfigsOfDepth(MaxDepth) \ Leaves

\* a and b are structurally equal: the same value up to the insertion order of
\* the properties of their objects, at every depth
RECURSIVE StructEq(_, _)
StructEq(a, b) ==
  /\ a.t = b.t /\ a.s = b.s /\ Len(a.e) = Len(b.e)
  /\ IF a.t = "arr"
       THEN \A i \in DOMAIN a.e : StructEq(a.e[i].v, b.e[i].v)
       ELSE \A i \in DOMAIN a.e :
              \E j \in DOMAIN b.e : a.e[i].k = b.e[j].k /\ StructEq(a.e[i].v, b.e[j].v)

CacheKeys == {buildPrimaryCacheKey(a, "qmd", c) : a \in Agents, c \in Configs}
\* the same fingerprint of an engram call's (agentId, backend, config); the code
\* computes none
EngramKeys == {buildPrimaryCacheKey(a, "engram", c) : a \in Agents, c \in Configs}

(***************************************************************************)
(* State                                                                   *)
(***************************************************************************)
VARIABLES
  PRIMARY_MANAGER_CACHE, \* cache key -> wrapper id, 0 when the key is absent
  numDecs,               \* wrappers constructed so far (ids 1..numDecs)
  decBackend,            \* deps.backendName of each wrapper
  decKey,                \* the cacheKey its onClose deletes (engram: no onClose)
  primaryFailed, lastError, cacheEvicted, fallback,  \* FallbackMemoryManager fields
  gpc, gkey, gres,       \* getMemorySearchManager calls: position, cacheKey, result
  createCalled,          \* per call: it invoked Qmd/EngramMemoryManager.create
  overlapped,            \* per call: the calls for the same key it ran together with
  cpc, cop, cdec,        \* wrapper method calls: position, method, wrapper
  cargs,                 \* per method call: the arguments it was issued with
  fbArgs,                \* per method call: the arguments of each invocation it made of
                         \* the fallback's method
  lastResult,            \* the most recent completion of a wrapper method, where recorded
  onCloseCalls,          \* per wrapper: onClose invocations
  degradeCloses,         \* per wrapper: primary.close invocations of search's catch block
  factoryYields,         \* per wrapper: fallbackFactory invocations that returned a handle
  primaryRejected,       \* per wrapper: a primary.search call has rejected
  xop, xsub,             \* EngramMemoryManager: the operation in progress, its subcommand
  xcount,                \* subprocess invocations so far
  child,                 \* the spawned process: none, running, closed
  exitCode,              \* the code of its close event
  errored, killed,       \* its error event was emitted; SIGKILL was sent to it
  timer,                 \* the timeout of the invocation: none, armed, cleared, fired
  stdout, stderr,        \* the chunks accumulated from the child's streams
  promise,               \* the promise exec returns
  xres,                  \* the result of the last completed operation
  hasManager,            \* EngramMemoryManager.create has returned a manager
  cfgA, cfgB,            \* two resolved configs given to buildPrimaryCacheKey
  keyA, keyB,            \* the cache keys built for them
  lastReturned,          \* per key: wrapper last returned, 0 once a wrapper of the key evicts
  evictedByDegrade,      \* per key: wrapper evicted by its degrade, 0 at the next lookup
  failedCreate           \* per key: a provider construction failed, FALSE at the next lookup

decVars == <<numDecs, decBackend, decKey, primaryFailed, lastError, cacheEvicted, fallback>>
getVars == <<gpc, gkey, gres, createCalled, overlapped>>
callVars == <<cpc, cop, cdec, cargs, fbArgs, lastResult>>
countVars == <<onCloseCalls, degradeCloses, factoryYields, primaryRejected>>
histVars == <<lastReturned, evictedByDegrade, failedCreate>>
execVars == <<xop, xsub, xcount, child, exitCode, errored, killed, timer, stdout, stderr,
              promise, xres, hasManager>>
keyVars == <<cfgA, cfgB, keyA, keyB>>
vars == <<PRIMARY_MANAGER_CACHE, decVars, getVars, callVars, countVars, histVars, execVars,
          keyVars>>

\* results of getMemorySearchManager: { manager, error }
NoResult == [manager |-> None, id |-> 0, error |-> NoMsg]
Wrapper(d) == [manager |-> "wrapper", id |-> d, error |-> NoMsg]
Builtin == [manager |-> "builtin", id |-> 0, error |-> NoMsg]
Failure(msg) == [manager |-> None, id |-> 0, error |-> msg]

\* completions of a wrapper method: resolved with a value from the primary or the
\* fallback, resolved with the method's default, or rejected with a message
Ok(from) == [kind |-> "ok", from |-> from, msg |-> NoMsg]
Throw(msg) == [kind |-> "throw", from |-> None, msg |-> msg]
Default(msg) == [kind |-> "default", from |-> None, msg |-> msg]
NoCompletion == [call |-> 0, op |-> None, dec |-> 0, kind |-> None, from |-> None, msg |-> NoMsg]
Completion(c, op, d, res) ==
  [call |-> c, op |-> op, dec |-> d, kind |-> res.kind, from |-> res.from, msg |-> res.msg]

\* the promise of exec: pending, resolved with a parsed response, or rejected
Pending == [state |-> "pending", resp |-> None, msg |-> NoMsg]
Resolved(resp) == [state |-> "resolved", resp |-> resp, msg |-> NoMsg]
Rejected(msg) == [state |-> "rejected", resp |-> None, msg |-> msg]

\* results of an EngramMemoryManager operation
NoOpResult == [op |-> None, kind |-> None, msg |-> NoMsg]
OpResult(op, kind, msg) == [op |-> op, kind |-> kind, msg |-> msg]

InitProgram ==
  /\ PRIMARY_MANAGER_CACHE = [k \in CacheKeys |-> 0]
  /\ numDecs = 0
  /\ decBackend = [d \in DecIds |-> None]
  /\ decKey = [d \in DecIds |-> NoKey]
  /\ primaryFailed = [d \in DecIds |-> FALSE]
  /\ lastError = [d \in DecIds |-> NoMsg]
  /\ cacheEvicted = [d \in DecIds |-> FALSE]
  /\ fallback = [d \in DecIds |-> FALSE]
  /\ gpc = [g \in Getters |-> "idle"]
  /\ gkey = [g \in Getters |-> NoKey]
  /\ gres = [g \in Getters |-> NoResult]
  /\ createCalled = [g \in Getters |-> FALSE]
  /\ overlapped = [g \in Getters |-> {}]
  /\ cpc = [c \in Callers |-> "idle"]
  /\ cop = [c \in Callers |-> None]
  /\ cdec = [c \in Callers |-> 0]
  /\ cargs = [c \in Callers |-> NoArgs]
  /\ fbArgs = [c \in Callers |-> <<>>]
  /\ lastResult = NoCompletion
  /\ onCloseCalls = [d \in DecIds |-> 0]
  /\ degradeCloses = [d \in DecIds |-> 0]
  /\ factoryYields = [d \in DecIds |-> 0]
  /\ primaryRejected = [d \in DecIds |-> FALSE]
  /\ xop = None /\ xsub = None /\ xcount = 0
  /\ child = "none" /\ exitCode = None /\ errored = FALSE /\ killed = FALSE
  /\ timer = "none" /\ stdout = <<>> /\ stderr = <<>>
  /\ promise = Pending /\ xres = NoOpResult /\ hasManager = FALSE
  /\ lastReturned = [k \in CacheKeys \cup EngramKeys |-> 0]
  /\ evictedByDegrade = [k \in CacheKeys |-> 0]
  /\ failedCreate = [k \in CacheKeys \cup EngramKeys |-> FALSE]

Init ==
  /\ InitProgram
  /\ cfgA = CfgAB /\ cfgB = CfgBA
  /\ keyA = NoKey /\ keyB = NoKey

(***************************************************************************)
(* getMemorySearchManager                                                  *)
(***************************************************************************)
\* a lookup that never finds the cached wrapper
CacheGet_Miss(cacheKey) == 0

\* PRIMARY_MANAGER_CACHE.get(cacheKey)
CacheGet(cacheKey) == PRIMARY_MANAGER_CACHE[cacheKey]

\* a wrapper constructed with primaryFailed set
NewWrapper_Failed(d, backendName, cacheKey) ==
  /\ numDecs' = d
  /\ decBackend' = [decBackend EXCEPT ![d] = backendName]
  /\ decKey' = [decKey EXCEPT ![d] = cacheKey]
  /\ primaryFailed' = [primaryFailed EXCEPT ![d] = TRUE]
  /\ lastError' = [lastError EXCEPT ![d] = NoMsg]
  /\ cacheEvicted' = [cacheEvicted EXCEPT ![d] = FALSE]
  /\ fallback' = [fallback EXCEPT ![d] = FALSE]

\* new FallbackMemoryManager(deps, onClose): the fields of the new wrapper d;
\* onClose is passed for backend qmd only
NewWrapper(d, backendName, cacheKey) ==
  /\ numDecs' = d
  /\ decBackend' = [decBackend EXCEPT ![d] = backendName]
  /\ decKey' = [decKey EXCEPT ![d] = cacheKey]
  /\ primaryFailed' = [primaryFailed EXCEPT ![d] = FALSE]
  /\ lastError' = [lastError EXCEPT ![d] = NoMsg]
  /\ cacheEvicted' = [cacheEvicted EXCEPT ![d] = FALSE]
  /\ fallback' = [fallback EXCEPT ![d] = FALSE]

\* a slot takes a new call when it is free; free slots are taken in order
GetIssuable(g) ==
  \/ gpc[g] = "done"
  \/ gpc[g] = "idle" /\ \A h \in Getters : h < g => gpc[h] # "idle"

\* the calls suspended in QmdMemoryManager.create for the key when g is issued
Peers(g, cacheKey) == {h \in Getters \ {g} : gpc[h] = "qmdCreate" /\ gkey[h] = cacheKey}

Issue(g, cacheKey, peers) ==
  /\ gkey' = [gkey EXCEPT ![g] = cacheKey]
  /\ overlapped' = [h \in Getters |->
                      IF h = g THEN peers
                      ELSE IF h \in peers THEN overlapped[h] \cup {g}
                      ELSE overlapped[h] \ {g}]

\* backend qmd: cache lookup; a hit returns, a miss invokes QmdMemoryManager.create
GetStartQmd(g) ==
  \E agentId \in Agents, config \in Configs :
    LET cacheKey == buildPrimaryCacheKey(agentId, "qmd", config)
        cached == CacheGet(cacheKey)
    IN /\ GetIssuable(g)
       /\ Issue(g, cacheKey, Peers(g, cacheKey))
       /\ evictedByDegrade' = [evictedByDegrade EXCEPT ![cacheKey] = 0]
       /\ failedCreate' = [failedCreate EXCEPT ![cacheKey] = FALSE]
       /\ IF cached # 0
            THEN /\ gpc' = [gpc EXCEPT ![g] = "done"]
                 /\ gres' = [gres EXCEPT ![g] = Wrapper(cached)]
                 /\ createCalled' = [createCalled EXCEPT ![g] = FALSE]
                 /\ lastReturned' = [lastReturned EXCEPT ![cacheKey] = cached]
            ELSE /\ gpc' = [gpc EXCEPT ![g] = "qmdCreate"]
                 /\ gres' = [gres EXCEPT ![g] = NoResult]
                 /\ createCalled' = [createCalled EXCEPT ![g] = TRUE]
                 /\ UNCHANGED lastReturned
       /\ UNCHANGED <<PRIMARY_MANAGER_CACHE, decVars, callVars, execVars, keyVars, countVars>>

\* QmdMemoryManager.create settles: a handle is wrapped and cached; null or a
\* rejection falls through to the builtin index
GetQmdCreated(g) ==
  \E outcome \in {"handle", "null", "throw"} :
    /\ gpc[g] = "qmdCreate"
    /\ IF outcome = "handle"
         THEN LET wrapper == numDecs + 1
              IN /\ numDecs < MaxDecs
                 /\ NewWrapper(wrapper, "qmd", gkey[g])
                 /\ PRIMARY_MANAGER_CACHE' = [PRIMARY_MANAGER_CACHE EXCEPT ![gkey[g]] = wrapper]
                 /\ gpc' = [gpc EXCEPT ![g] = "done"]
                 /\ gres' = [gres EXCEPT ![g] = Wrapper(wrapper)]
                 /\ lastReturned' = [lastReturned EXCEPT ![gkey[g]] = wrapper]
                 /\ UNCHANGED failedCreate
         ELSE /\ gpc' = [gpc EXCEPT ![g] = "builtin"]
              /\ failedCreate' = [failedCreate EXCEPT ![gkey[g]] = TRUE]
              /\ UNCHANGED <<PRIMARY_MANAGER_CACHE, decVars, gres, lastReturned>>
    /\ UNCHANGED <<gkey, createCalled, overlapped, callVars, execVars, keyVars, countVars, evictedByDegrade>>

\* backend engram: EngramMemoryManager.create is invoked, no cache lookup
GetStartEngram(g) ==
  \E agentId \in Agents, config \in Configs :
    /\ GetIssuable(g)
    /\ Issue(g, buildPrimaryCacheKey(agentId, "engram", config), {})
    /\ gpc' = [gpc EXCEPT ![g] = "engramCreate"]
    /\ gres' = [gres EXCEPT ![g] = NoResult]
    /\ createCalled' = [createCalled EXCEPT ![g] = TRUE]
    /\ failedCreate' = [failedCreate EXCEPT ![buildPrimaryCacheKey(agentId, "engram", config)] = FALSE]
    /\ UNCHANGED <<PRIMARY_MANAGER_CACHE, decVars, callVars, execVars, keyVars, countVars, lastReturned,
                   evictedByDegrade>>

\* EngramMemoryManager.create settles: a handle is wrapped (no onClose, not cached)
GetEngramCreated(g) ==
  \E outcome \in {"handle", "null", "throw"} :
    /\ gpc[g] = "engramCreate"
    /\ IF outcome = "handle"
         THEN LET wrapper == numDecs + 1
              IN /\ numDecs < MaxDecs
                 /\ NewWrapper(wrapper, "engram", gkey[g])
                 /\ gpc' = [gpc EXCEPT ![g] = "done"]
                 /\ gres' = [gres EXCEPT ![g] = Wrapper(wrapper)]
                 /\ lastReturned' = [lastReturned EXCEPT ![gkey[g]] = wrapper]
                 /\ UNCHANGED failedCreate
         ELSE /\ gpc' = [gpc EXCEPT ![g] = "builtin"]
              /\ failedCreate' = [failedCreate EXCEPT ![gkey[g]] = TRUE]
              /\ UNCHANGED <<decVars, gres, lastReturned>>
    /\ UNCHANGED <<PRIMARY_MANAGER_CACHE, gkey, createCalled, overlapped, callVars, execVars, keyVars, countVars,
                   evictedByDegrade>>

\* backend builtin: straight to MemoryIndexManager.get
GetStartBuiltin(g) ==
  /\ GetIssuable(g)
  /\ Issue(g, NoKey, {})
  /\ gpc' = [gpc EXCEPT ![g] = "builtin"]
  /\ gres' = [gres EXCEPT ![g] = NoResult]
  /\ createCalled' = [createCalled EXCEPT ![g] = FALSE]
  /\ UNCHANGED <<PRIMARY_MANAGER_CACHE, decVars, callVars, execVars, keyVars, countVars, histVars>>

\* the message of the error MemoryIndexManager.get raises
BuiltinError == <<"builtin error">>

\* MemoryIndexManager.get settles: `return { manager }` with the manager or the
\* null it resolved to (the value ensureFallback tests for), or
\* { manager: null, error } when it rejected
GetBuiltin(g) ==
  \E outcome \in {"manager", "null", "throw"} :
    /\ gpc[g] = "builtin"
    /\ gpc' = [gpc EXCEPT ![g] = "done"]
    /\ gres' = [gres EXCEPT ![g] = CASE outcome = "manager" -> Builtin
                                     [] outcome = "null" -> NoResult
                                     [] OTHER -> Failure(BuiltinError)]
    /\ UNCHANGED <<PRIMARY_MANAGER_CACHE, decVars, gkey, createCalled, overlapped, callVars, execVars, keyVars,
                   countVars, histVars>>

(***************************************************************************)
(* FallbackMemoryManager                                                   *)
(***************************************************************************)
DelegatingOps == {"search", "readFile", "sync", "probeEmbeddingAvailability",
                  "probeVectorAvailability"}

\* the calls are issued in the order of their numbers, on a wrapper some caller holds
CallIssuable(c, d) ==
  /\ cpc[c] = "idle"
  /\ \A b \in Callers : b < c => cpc[b] # "idle"
  /\ d \in 1..numDecs

\* the promise of method call c settles with res; rec: the specification records
\* the completion in lastResult
Finish(c, res, rec) ==
  /\ cpc' = [cpc EXCEPT ![c] = IF res.kind = "throw" THEN "rejected" ELSE "resolved"]
  /\ lastResult' = IF rec THEN Completion(c, cop[c], cdec[c], res) ELSE lastResult
  /\ UNCHANGED <<cop, cdec, cargs, fbArgs>>

\* evictCacheEntry without its guard
EvictGuard_Off(d) == FALSE

\* evictCacheEntry: the cacheEvicted guard
EvictGuard(d) == cacheEvicted[d]

\* an onClose that leaves the cache as it is
OnClose_Keep(cacheKey) == UNCHANGED PRIMARY_MANAGER_CACHE

\* the onClose of a qmd wrapper: () => PRIMARY_MANAGER_CACHE.delete(cacheKey)
OnClose(cacheKey) == PRIMARY_MANAGER_CACHE' = [PRIMARY_MANAGER_CACHE EXCEPT ![cacheKey] = 0]

\* evictCacheEntry: the guard, then this.onClose?.()
evictCacheEntry(d) ==
  IF EvictGuard(d)
    THEN UNCHANGED <<cacheEvicted, onCloseCalls, PRIMARY_MANAGER_CACHE, lastReturned>>
    ELSE /\ cacheEvicted' = [cacheEvicted EXCEPT ![d] = TRUE]
         /\ lastReturned' = [lastReturned EXCEPT ![decKey[d]] = 0]
         /\ IF decBackend[d] = "qmd"
              THEN /\ onCloseCalls' = [onCloseCalls EXCEPT ![d] = @ + 1]
                   /\ OnClose(decKey[d])
              ELSE UNCHANGED <<onCloseCalls, PRIMARY_MANAGER_CACHE>>

\* ensureFallback: the test of the memoized handle
HasFallback(d) == fallback[d]

\* a fallback call that loses opts.sessionKey
ForwardArgs_NoSession(args) == [args EXCEPT !.sessionKey = None]

\* the arguments the wrapper's method hands to the fallback's method:
\* fallback.search(query, opts), fallback.readFile(params), ...
ForwardArgs(args) == args

\* call c invokes the fallback's method
InvokeFallback(c, args) ==
  /\ cpc' = [cpc EXCEPT ![c] = "fallbackOp"]
  /\ fbArgs' = [fbArgs EXCEPT ![c] = Append(@, ForwardArgs(args))]

\* ensureFallback up to its await: the memoized handle, on which the caller invokes
\* the fallback's method, or a fallbackFactory invocation
ensureFallback(c, d, args) ==
  IF HasFallback(d)
    THEN InvokeFallback(c, args)
    ELSE cpc' = [cpc EXCEPT ![c] = "factory"] /\ UNCHANGED fbArgs

\* methods that go to the primary whatever primaryFailed is
UsePrimary_Always(d) == TRUE

\* the primaryFailed test that opens search, readFile, sync and the probes
UsePrimary(d) == ~primaryFailed[d]

\* search, readFile, sync, probeEmbeddingAvailability, probeVectorAvailability:
\* up to the first await, on the primary's method or in ensureFallback
CallStart(c, op, args) ==
  \E d \in DecIds :
    /\ CallIssuable(c, d)
    /\ cop' = [cop EXCEPT ![c] = op]
    /\ cdec' = [cdec EXCEPT ![c] = d]
    /\ cargs' = [cargs EXCEPT ![c] = args]
    /\ IF UsePrimary(d)
         THEN cpc' = [cpc EXCEPT ![c] = "primary"] /\ UNCHANGED fbArgs
         ELSE ensureFallback(c, d, args)
    /\ UNCHANGED <<PRIMARY_MANAGER_CACHE, decVars, getVars, execVars, keyVars, lastResult, countVars, histVars>>

\* the primary's method resolves
PrimaryResolves(c, rec) ==
  /\ cpc[c] = "primary"
  /\ Finish(c, Ok("primary"), rec)
  /\ UNCHANGED <<PRIMARY_MANAGER_CACHE, decVars, getVars, execVars, keyVars, countVars, histVars>>

\* every method catching its primary's rejection
Degrades_Any(op) == TRUE

\* the methods that await their primary's method inside try/catch: search alone
Degrades(op) == op = "search"

\* the primary's method rejects: search's catch block up to `await primary.close()`;
\* the other methods propagate the rejection
PrimaryRejects(c, rec) ==
  LET d == cdec[c] IN
  /\ cpc[c] = "primary"
  /\ IF Degrades(cop[c])
       THEN /\ primaryFailed' = [primaryFailed EXCEPT ![d] = TRUE]
            /\ lastError' = [lastError EXCEPT ![d] = ErrMsg(c)]
            /\ degradeCloses' = [degradeCloses EXCEPT ![d] = @ + 1]
            /\ primaryRejected' = [primaryRejected EXCEPT ![d] = TRUE]
            /\ cpc' = [cpc EXCEPT ![c] = "degradeClose"]
            /\ UNCHANGED <<cop, cdec, cargs, fbArgs, lastResult>>
       ELSE /\ Finish(c, Throw(ErrMsg(c)), rec)
            /\ UNCHANGED <<primaryFailed, lastError, degradeCloses, primaryRejected>>
  /\ UNCHANGED <<PRIMARY_MANAGER_CACHE, numDecs, decBackend, decKey, cacheEvicted, fallback,
                 getVars, execVars, keyVars, onCloseCalls, factoryYields, histVars>>

\* primary.close() of the catch block settles (a rejection is swallowed):
\* evictCacheEntry, then ensureFallback
DegradeCloseSettles(c) ==
  \E ok \in BOOLEAN :
    LET d == cdec[c] IN
    /\ cpc[c] = "degradeClose"
    /\ evictCacheEntry(d)
    /\ evictedByDegrade' = IF ~EvictGuard(d) /\ decBackend[d] = "qmd"
                             THEN [evictedByDegrade EXCEPT ![decKey[d]] = d]
                             ELSE evictedByDegrade
    /\ ensureFallback(c, d, cargs[c])
    /\ UNCHANGED <<numDecs, decBackend, decKey, primaryFailed, lastError, fallback,
                   getVars, execVars, keyVars, failedCreate, cop, cdec, cargs, lastResult, degradeCloses, factoryYields,
                   primaryRejected>>

\* this.lastError ?? "<method> unavailable"
LastErrorOr(d) == IF lastError[d] # NoMsg THEN lastError[d] ELSE <<"unavailable">>

\* what each method does when ensureFallback returned null
NoFallbackResult(op, d) ==
  CASE op \in {"search", "readFile"} -> Throw(LastErrorOr(d))
    [] op = "sync" -> Ok(None)
    [] op = "probeEmbeddingAvailability" -> Default(LastErrorOr(d))
    [] OTHER -> Default(NoMsg)

\* fallbackFactory settles: a handle is memoized and its method invoked; null is
\* not memoized; a rejection propagates out of the method
FactorySettles(c, rec) ==
  \E outcome \in {"handle", "null", "throw"} :
    LET d == cdec[c] IN
    /\ cpc[c] = "factory"
    /\ CASE outcome = "handle" ->
              /\ fallback' = [fallback EXCEPT ![d] = TRUE]
              /\ factoryYields' = [factoryYields EXCEPT ![d] = @ + 1]
              /\ InvokeFallback(c, cargs[c])
              /\ UNCHANGED <<cop, cdec, cargs, lastResult>>
         [] outcome = "null" ->
              /\ Finish(c, NoFallbackResult(cop[c], d), rec)
              /\ UNCHANGED <<fallback, factoryYields>>
         [] OTHER ->
              /\ Finish(c, Throw(<<"factory error">>), rec)
              /\ UNCHANGED <<fallback, factoryYields>>
    /\ UNCHANGED <<PRIMARY_MANAGER_CACHE, numDecs, decBackend, decKey, primaryFailed, lastError,
                   cacheEvicted, getVars, execVars, keyVars, onCloseCalls, degradeCloses, primaryRejected,
                   histVars>>

\* the fallback's method settles
FallbackSettles(c, rec) ==
  \E ok \in BOOLEAN :
    /\ cpc[c] = "fallbackOp"
    /\ Finish(c, IF ok THEN Ok("fallback") ELSE Throw(<<"fallback error">>), rec)
    /\ UNCHANGED <<PRIMARY_MANAGER_CACHE, decVars, getVars, execVars, keyVars, countVars, histVars>>

\* status(): synchronous; the primary's status, or when degraded the fallback's
\* (if constructed, else the primary's) annotated with lastError
Status(c) ==
  \E d \in DecIds :
    /\ CallIssuable(c, d)
    /\ cpc' = [cpc EXCEPT ![c] = "resolved"]
    /\ cop' = [cop EXCEPT ![c] = "status"]
    /\ cdec' = [cdec EXCEPT ![c] = d]
    /\ UNCHANGED <<cargs, fbArgs>>
    /\ lastResult' = Completion(c, "status", d,
                       IF ~primaryFailed[d] THEN Ok("primary")
                       ELSE [kind |-> "ok",
                             from |-> IF fallback[d] THEN "fallback" ELSE "primary",
                             msg |-> LastErrorOr(d)])
    /\ UNCHANGED <<PRIMARY_MANAGER_CACHE, decVars, getVars, execVars, keyVars, countVars, histVars>>

\* close(): up to `await this.deps.primary.close?.()`
CloseStart(c) ==
  \E d \in DecIds :
    /\ CallIssuable(c, d)
    /\ cop' = [cop EXCEPT ![c] = "close"]
    /\ cdec' = [cdec EXCEPT ![c] = d]
    /\ UNCHANGED <<cargs, fbArgs>>
    /\ cpc' = [cpc EXCEPT ![c] = "closePrimary"]
    /\ UNCHANGED <<PRIMARY_MANAGER_CACHE, decVars, getVars, execVars, keyVars, lastResult, countVars, histVars>>

\* close(): primary.close() settles; a rejection leaves close(); otherwise the
\* fallback (if any) is closed, and without one evictCacheEntry runs
ClosePrimarySettles(c, rec) ==
  \E ok \in BOOLEAN :
    LET d == cdec[c] IN
    /\ cpc[c] = "closePrimary"
    /\ IF ~ok
         THEN /\ Finish(c, Throw(<<"close error">>), rec)
              /\ UNCHANGED <<cacheEvicted, onCloseCalls, PRIMARY_MANAGER_CACHE, lastReturned>>
         ELSE IF fallback[d]
           THEN /\ cpc' = [cpc EXCEPT ![c] = "closeFallback"]
                /\ UNCHANGED <<cop, cdec, cargs, fbArgs, lastResult, cacheEvicted, onCloseCalls,
                               PRIMARY_MANAGER_CACHE, lastReturned>>
           ELSE /\ evictCacheEntry(d)
                /\ Finish(c, Ok(None), rec)
    /\ UNCHANGED <<numDecs, decBackend, decKey, primaryFailed, lastError, fallback,
                   getVars, execVars, keyVars, evictedByDegrade, failedCreate, degradeCloses, factoryYields, primaryRejected>>

\* close(): fallback.close() settles, then evictCacheEntry
CloseFallbackSettles(c, rec) ==
  \E ok \in BOOLEAN :
    LET d == cdec[c] IN
    /\ cpc[c] = "closeFallback"
    /\ IF ok
         THEN /\ evictCacheEntry(d)
              /\ Finish(c, Ok(None), rec)
         ELSE /\ Finish(c, Throw(<<"close error">>), rec)
              /\ UNCHANGED <<cacheEvicted, onCloseCalls, PRIMARY_MANAGER_CACHE, lastReturned>>
    /\ UNCHANGED <<numDecs, decBackend, decKey, primaryFailed, lastError, fallback,
                   getVars, execVars, keyVars, evictedByDegrade, failedCreate, degradeCloses, factoryYields, primaryRejected>>

(***************************************************************************)
(* EngramMemoryManager (engram-manager.ts): create and exec                *)
(*                                                                         *)
(* exec registers its handlers and returns; the timer and the child's      *)
(* events then run one handler at a time.  Each invocation has its own     *)
(* child, timer, buffers and promise, so one invocation at a time is       *)
(* followed.                                                               *)
(***************************************************************************)
\* subprocess invocations in one behaviour
MaxExecs == 2
\* chunks a stream delivers in one invocation
MaxChunks == 3

\* the pieces of text the child writes to stdout: the braces of a JSON object,
\* the member "status":{"backend_available":true} or ...:false, and the text null
StdoutChunks == {"{", "}", "available", "unavailable", "null"}
StderrChunks == {"boom"}
\* exit codes of the close event; "null" when a signal ended the process
ExitCodes == {"0", "1", "null"}

\* parsed adapter responses: an object whose status.backend_available is "true",
\* "false" or absent, or the value null
Invalid == [valid |-> FALSE, falsy |-> FALSE, backend_available |-> None]
Response(avail) == [valid |-> TRUE, falsy |-> FALSE, backend_available |-> avail]
Null == [valid |-> TRUE, falsy |-> TRUE, backend_available |-> None]

\* JSON.parse over the texts the chunks can form: it throws on anything but one
\* complete object
JsonParse(text) ==
  CASE text = <<"{", "}">> -> Response(None)
    [] text = <<"{", "available", "}">> -> Response("true")
    [] text = <<"{", "unavailable", "}">> -> Response("false")
    [] text = <<"null">> -> Null
    [] OTHER -> Invalid

\* stdout || "{}"
OrEmptyObject(text) == IF text = <<>> THEN <<"{", "}">> ELSE text

TimeoutMsg(sub) == <<"engram adapter timeout", sub>>
SpawnFailed == <<"spawn error">>
\* stderr || `engram adapter exited with code ${code}`
ExitMsg(err, code) == IF err # <<>> THEN err ELSE <<"engram adapter exited with code", code>>
InvalidJson == <<"engram adapter returned invalid JSON">>

Subcommand(op) ==
  CASE op = "create" -> "health"
    [] op = "search" -> "search"
    [] op = "readFile" -> "fetch"
    [] OTHER -> "flush"

\* a promise that its last resolve or reject call settles
Settle_Last(outcome) == promise' = outcome

\* resolve(...) or reject(...): only the first call settles the promise
Settle(outcome) == promise' = IF promise.state = "pending" THEN outcome ELSE promise

\* clearTimeout(timeout)
ClearTimeout == timer' = IF timer = "armed" THEN "cleared" ELSE timer

\* exec(subcommand, payload): the executor of the promise; spawn returns a child
\* whose handlers and timer are registered, or throws
ExecStart(op) ==
  \E spawned \in BOOLEAN :
    /\ xop = None /\ child # "running" /\ xcount < MaxExecs
    /\ xop' = op /\ xsub' = Subcommand(op)
    /\ xcount' = xcount + 1
    /\ stdout' = <<>> /\ stderr' = <<>>
    /\ exitCode' = None /\ errored' = FALSE /\ killed' = FALSE
    /\ IF spawned
         THEN child' = "running" /\ timer' = "armed" /\ promise' = Pending
         ELSE child' = "none" /\ timer' = "none" /\ promise' = Rejected(SpawnFailed)
    /\ UNCHANGED <<xres, hasManager>>

\* EngramMemoryManager.create: up to `await manager.exec("health", {})`
CreateStart ==
  /\ ~hasManager
  /\ ExecStart("create")
  /\ UNCHANGED <<PRIMARY_MANAGER_CACHE, decVars, getVars, callVars, countVars, histVars, keyVars>>

\* search, readFile, sync of a manager: up to `await this.exec(...)`
MethodStart(op) ==
  /\ hasManager
  /\ ExecStart(op)
  /\ UNCHANGED <<PRIMARY_MANAGER_CACHE, decVars, getVars, callVars, countVars, histVars, keyVars>>

\* a timeout callback that kills the child and leaves the promise alone
TimerFires_Silent ==
  /\ timer = "armed"
  /\ timer' = "fired"
  /\ killed' = TRUE
  /\ UNCHANGED <<xop, xsub, xcount, child, exitCode, errored, stdout, stderr, promise, xres,
                 hasManager>>
  /\ UNCHANGED <<PRIMARY_MANAGER_CACHE, decVars, getVars, callVars, countVars, histVars, keyVars>>

\* the setTimeout callback: child.kill("SIGKILL"); reject(timeout error)
TimerFires ==
  /\ timer = "armed"
  /\ timer' = "fired"
  /\ killed' = TRUE
  /\ Settle(Rejected(TimeoutMsg(xsub)))
  /\ UNCHANGED <<xop, xsub, xcount, child, exitCode, errored, stdout, stderr, xres, hasManager>>
  /\ UNCHANGED <<PRIMARY_MANAGER_CACHE, decVars, getVars, callVars, countVars, histVars, keyVars>>

\* child.on("error"): clearTimeout; reject(err)
ChildError ==
  /\ child = "running" /\ ~errored
  /\ errored' = TRUE
  /\ ClearTimeout
  /\ Settle(Rejected(SpawnFailed))
  /\ UNCHANGED <<xop, xsub, xcount, child, exitCode, killed, stdout, stderr, xres, hasManager>>
  /\ UNCHANGED <<PRIMARY_MANAGER_CACHE, decVars, getVars, callVars, countVars, histVars, keyVars>>

\* child.stdout.on("data"): stdout += String(chunk)
StdoutData ==
  \E chunk \in StdoutChunks :
    /\ child = "running" /\ Len(stdout) < MaxChunks
    /\ stdout' = Append(stdout, chunk)
    /\ UNCHANGED <<xop, xsub, xcount, child, exitCode, errored, killed, timer, stderr, promise,
                   xres, hasManager>>
    /\ UNCHANGED <<PRIMARY_MANAGER_CACHE, decVars, getVars, callVars, countVars, histVars, keyVars>>

\* child.stderr.on("data"): stderr += String(chunk)
StderrData ==
  \E chunk \in StderrChunks :
    /\ child = "running" /\ Len(stderr) < MaxChunks
    /\ stderr' = Append(stderr, chunk)
    /\ UNCHANGED <<xop, xsub, xcount, child, exitCode, errored, killed, timer, stdout, promise,
                   xres, hasManager>>
    /\ UNCHANGED <<PRIMARY_MANAGER_CACHE, decVars, getVars, callVars, countVars, histVars, keyVars>>

\* child.on("close"): clearTimeout; a code other than 0 rejects; otherwise
\* JSON.parse(stdout || "{}") resolves, or rejects when it throws
ChildClose ==
  \E code \in ExitCodes :
    LET parsed == JsonParse(OrEmptyObject(stdout)) IN
    /\ child = "running"
    /\ child' = "closed"
    /\ exitCode' = code
    /\ ClearTimeout
    /\ Settle(IF code # "0" THEN Rejected(ExitMsg(stderr, code))
              ELSE IF parsed.valid THEN Resolved(parsed)
              ELSE Rejected(InvalidJson))
    /\ UNCHANGED <<xop, xsub, xcount, errored, killed, stdout, stderr, xres, hasManager>>
    /\ UNCHANGED <<PRIMARY_MANAGER_CACHE, decVars, getVars, callVars, countVars, histVars, keyVars>>

\* create after `await manager.exec("health", {})`: null when the response is
\* falsy or status.backend_available === false, or when exec rejected
CreateResult(p) ==
  IF p.state = "rejected" THEN "null"
  ELSE IF p.resp.falsy \/ p.resp.backend_available = "false" THEN "null"
  ELSE "handle"

\* the operation's await on exec's promise continues
OpSettles ==
  /\ xop # None /\ promise.state # "pending"
  /\ xop' = None
  /\ IF xop = "create"
       THEN /\ xres' = OpResult(xop, CreateResult(promise), NoMsg)
            /\ hasManager' = (CreateResult(promise) = "handle")
       ELSE /\ xres' = IF promise.state = "rejected"
                         THEN OpResult(xop, "throw", promise.msg)
                         ELSE IF promise.resp.falsy /\ xop # "sync"
                           THEN OpResult(xop, "throw", <<"TypeError">>)
                         ELSE OpResult(xop, "ok", NoMsg)
            /\ UNCHANGED hasManager
  /\ UNCHANGED <<xsub, xcount, child, exitCode, errored, killed, timer, stdout, stderr, promise>>
  /\ UNCHANGED <<PRIMARY_MANAGER_CACHE, decVars, getVars, callVars, countVars, histVars, keyVars>>

(***************************************************************************)
(* Specifications                                                          *)
(***************************************************************************)
\* what a method call does once it has been issued
CallStep(c, rec) ==
  \/ PrimaryResolves(c, rec)
  \/ PrimaryRejects(c, rec)
  \/ DegradeCloseSettles(c)
  \/ FactorySettles(c, rec)
  \/ FallbackSettles(c, rec)
  \/ ClosePrimarySettles(c, rec)
  \/ CloseFallbackSettles(c, rec)

\* The cache of qmd wrappers: lookups for backend qmd, running together with the
\* two methods that evict, search and close.  (readFile, sync, the probes and
\* status read and write nothing the cache or onClose depends on but the
\* memoized fallback, which a degraded search memoizes the same way.)
Next ==
  \/ \E g \in Getters : GetStartQmd(g) \/ GetQmdCreated(g) \/ GetBuiltin(g)
  \/ \E c \in Callers : CallStart(c, "search", PlainSearch) \/ CloseStart(c) \/ CallStep(c, FALSE)

Spec == Init /\ [][Next]_vars

\* The backends without a cache: lookups for backends engram and builtin, and
\* close() on the engram wrappers
NextEngram ==
  \/ \E g \in Getters :
       GetStartEngram(g) \/ GetEngramCreated(g) \/ GetStartBuiltin(g) \/ GetBuiltin(g)
  \/ \E c \in Callers : CloseStart(c) \/ ClosePrimarySettles(c, FALSE)

SpecEngram == Init /\ [][NextEngram]_vars

\* One wrapper (of either backend), under every method and every interleaving
\* of the calls on it
NextWrapper ==
  \/ /\ numDecs = 0
     /\ \/ GetStartQmd(1) \/ GetQmdCreated(1)
        \/ GetStartEngram(1) \/ GetEngramCreated(1)
        \/ GetBuiltin(1)
  \/ \E c \in Callers :
       \/ \E op \in DelegatingOps : \E args \in OpArgs(op) : CallStart(c, op, args)
       \/ Status(c)
       \/ CloseStart(c)
       \/ CallStep(c, TRUE)

SpecWrapper == Init /\ [][NextWrapper]_vars

\* The subprocess adapter: create, then the manager's methods, each one
\* invocation of the adapter under every order of the child's events and the timer
NextExec ==
  \/ CreateStart
  \/ \E op \in {"search", "readFile", "sync"} : MethodStart(op)
  \/ TimerFires
  \/ ChildError
  \/ StdoutData
  \/ StderrData
  \/ ChildClose
  \/ OpSettles

SpecExec == Init /\ [][NextExec]_vars

\* The subprocess adapter under the guarantees of the event loop: a timer that
\* stays armed fires, and the continuation of an await on a settled promise runs.
\* Nothing is assumed of the child: it may never write, close or report an error.
SpecExecFair == SpecExec /\ WF_vars(TimerFires) /\ WF_vars(OpSettles)

\* Provider selection alone: lookups for every backend, under every outcome of
\* the provider's and the builtin index's construction
NextSelect ==
  \E g \in Getters :
    \/ GetStartQmd(g) \/ GetQmdCreated(g)
    \/ GetStartEngram(g) \/ GetEngramCreated(g)
    \/ GetStartBuiltin(g) \/ GetBuiltin(g)

SpecSelect == Init /\ [][NextSelect]_vars

\* buildPrimaryCacheKey on every pair of structurally equal resolved configs
InitKey ==
  /\ InitProgram
  /\ cfgA \in KeyConfigs
  /\ cfgB \in {c \in KeyConfigs : StructEq(cfgA, c)}
  /\ keyA = NoKey /\ keyB = NoKey

BuildKeyA ==
  \E agentId \in Agents :
    /\ keyA = NoKey
    /\ keyA' = buildPrimaryCacheKey(agentId, "qmd", cfgA)
    /\ UNCHANGED <<PRIMARY_MANAGER_CACHE, decVars, getVars, callVars, countVars, histVars,
                   execVars, cfgA, cfgB, keyB>>

BuildKeyB ==
  \E agentId \in Agents :
    /\ keyB = NoKey
    /\ keyB' = buildPrimaryCacheKey(agentId, "qmd", cfgB)
    /\ UNCHANGED <<PRIMARY_MANAGER_CACHE, decVars, getVars, callVars, countVars, histVars,
                   execVars, cfgA, cfgB, keyA>>

NextKey == BuildKeyA \/ BuildKeyB

SpecKey == InitKey /\ [][NextKey]_vars

(***************************************************************************)
(* Properties                                                              *)
(***************************************************************************)
\* this step issues getMemorySearchManager call g for the key k
IssueStep(g, k) ==
  /\ GetIssuable(g)
  /\ gkey'[g] = k
  /\ gpc'[g] \in {"qmdCreate", "engramCreate", "done"}
  /\ <<gpc[g], gkey[g], gres[g], createCalled[g]>> #
       <<gpc'[g], gkey'[g], gres'[g], createCalled'[g]>>

\* this step is a step of the wrapper method call c
StepOf(c) == cpc'[c] # cpc[c]

\* C1: a qmd lookup issued after a lookup for the same key has returned a wrapper,
\* with no eviction for the key in between, returns that same wrapper and does not
\* invoke QmdMemoryManager.create.
C1_Theorem ==
  [][\A g \in Getters, k \in CacheKeys :
       IssueStep(g, k) /\ lastReturned[k] # 0
         => gres'[g] = Wrapper(lastReturned[k]) /\ ~createCalled'[g]]_vars

C1_Witness ==
  \E g \in Getters, h \in Getters :
    /\ g # h
    /\ gpc[g] = "done" /\ gpc[h] = "done"
    /\ gkey[g] \in CacheKeys /\ gkey[h] = gkey[g]
    /\ gres[g].manager = "wrapper" /\ gres[h] = gres[g]
    /\ createCalled[g] /\ ~createCalled[h]

\* C2: two qmd lookups for the same key that overlap (one issued while the other
\* is suspended in QmdMemoryManager.create) return the same wrapper, and
\* QmdMemoryManager.create is invoked by at most one of them.
C2_Claim ==
  \A g \in Getters, h \in Getters :
    ( /\ h \in overlapped[g]
      /\ gpc[g] = "done" /\ gpc[h] = "done"
      /\ gres[g].manager = "wrapper" /\ gres[h].manager = "wrapper" )
    => gres[g] = gres[h] /\ ~(createCalled[g] /\ createCalled[h])

\* C3: an engram lookup issued after a lookup with the same agent and config has
\* returned a wrapper (not closed or degraded since) returns that same wrapper
\* and does not invoke EngramMemoryManager.create.
C3_Claim ==
  [][\A g \in Getters, k \in EngramKeys :
       IssueStep(g, k) /\ lastReturned[k] # 0
         => gres'[g] = Wrapper(lastReturned[k]) /\ ~createCalled'[g]]_vars

\* C4: the first lookup issued for a key after a wrapper of that key was evicted
\* by its degrade invokes QmdMemoryManager.create, and does not return the
\* evicted wrapper.
C4_Claim ==
  [][\A g \in Getters, k \in CacheKeys :
       IssueStep(g, k) /\ evictedByDegrade[k] # 0
         => createCalled'[g] /\ gres'[g] # Wrapper(evictedByDegrade[k])]_vars

\* the wrapper d is degraded and evicted, and the cache holds a newer wrapper
\* under its key
Stale(d) ==
  /\ d \in 1..numDecs
  /\ decBackend[d] = "qmd"
  /\ primaryFailed[d] /\ cacheEvicted[d]
  /\ CacheGet(decKey[d]) \notin {0, d}

\* C5: no step of close() on a degraded, evicted wrapper changes the cache while
\* a newer wrapper is cached under its key; a lookup for the key then returns the
\* newer wrapper without invoking QmdMemoryManager.create.
C5_Theorem ==
  [][/\ \A c \in Callers :
          cop[c] = "close" /\ StepOf(c) /\ Stale(cdec[c])
            => /\ PRIMARY_MANAGER_CACHE' = PRIMARY_MANAGER_CACHE
               /\ lastReturned' = lastReturned
     /\ \A g \in Getters, c \in Callers :
          ( /\ cop[c] = "close" /\ cpc[c] = "resolved" /\ Stale(cdec[c])
            /\ IssueStep(g, decKey[cdec[c]]) )
            => /\ gres'[g] = Wrapper(CacheGet(decKey[cdec[c]]))
               /\ ~createCalled'[g]]_vars

\* close() on a stale wrapper has resolved, and a lookup has hit the newer wrapper
C5_Witness ==
  \E c \in Callers, g \in Getters :
    /\ cop[c] = "close" /\ cpc[c] = "resolved" /\ Stale(cdec[c])
    /\ gpc[g] = "done" /\ ~createCalled[g]
    /\ gres[g] = Wrapper(CacheGet(decKey[cdec[c]]))

\* C6: a wrapper is constructed with primaryFailed unset, and no step of any
\* method unsets primaryFailed once it is set.
C6_Theorem ==
  [][/\ \A d \in DecIds : primaryFailed[d] => primaryFailed'[d]
     /\ numDecs' # numDecs => ~primaryFailed'[numDecs']]_vars

\* every kind of call has been made on a degraded wrapper
C6_Witness ==
  \E d \in DecIds :
    /\ primaryFailed[d] /\ fallback[d]
    /\ \E c \in Callers : cop[c] = "close" /\ cdec[c] = d /\ cpc[c] = "resolved"

\* C7: a search, readFile, sync or probe call issued on a wrapper after one of its
\* primary.search calls has rejected goes to ensureFallback, and never invokes or
\* returns from the primary.
C7_Theorem ==
  [][\A c \in Callers :
       /\ ( /\ cpc[c] = "idle" /\ cpc'[c] # "idle"
            /\ cop'[c] \in DelegatingOps
            /\ primaryRejected[cdec'[c]] )
          => cpc'[c] \in {"factory", "fallbackOp"}
       /\ cpc[c] \in {"factory", "fallbackOp"}
          => /\ cpc'[c] # "primary"
             /\ lastResult' # lastResult /\ lastResult'.call = c
                  => lastResult'.from # "primary"]_vars

\* a call of each kind issued after the failure has completed on the fallback
C7_Witness ==
  /\ lastResult.op \in DelegatingOps \ {"search"}
  /\ lastResult.from = "fallback"
  /\ primaryRejected[lastResult.dec]

\* C8: onClose is invoked at most once per wrapper.
C8_Theorem == \A d \in DecIds : onCloseCalls[d] <= 1

\* a failing search and a close() have both reached evictCacheEntry on a wrapper
C8_Witness ==
  \E d \in DecIds, c \in Callers, b \in Callers :
    /\ onCloseCalls[d] = 1
    /\ cop[c] = "search" /\ cdec[c] = d /\ degradeCloses[d] = 1
    /\ cpc[c] \notin {"primary", "degradeClose"}
    /\ cop[b] = "close" /\ cdec[b] = d /\ cpc[b] = "resolved"

\* C9: the degrade handling closes the primary at most once per wrapper and
\* fires eviction at most once, however many searches fail together.
C9_Claim == \A d \in DecIds : degradeCloses[d] <= 1 /\ onCloseCalls[d] <= 1

\* C10: per wrapper at most one fallbackFactory invocation returns a handle
\* (invocations that fail or return null aside, the factory is invoked once).
C10_Claim == \A d \in DecIds : factoryYields[d] <= 1

\* the messages of the errors the primary raises
PrimaryErrors == {ErrMsg(c) : c \in Callers}

\* C11: a search whose primary search rejected, and which finds a fallback (the
\* memoized one, or a handle returned by its fallbackFactory invocation), whatever
\* the outcome of primary.close(), invokes the fallback's search with the query and
\* options it was given; a search invokes the fallback's search at most once, always
\* with its own query and options (a search issued on a degraded wrapper included); and
\* it settles as that fallback search settles, never with the primary's error.
C11_Theorem ==
  [][\A c \in Callers :
       cop'[c] = "search" =>
         /\ ( \/ cpc[c] = "degradeClose" /\ HasFallback(cdec[c]) /\ StepOf(c)
              \/ cpc[c] = "factory" /\ factoryYields'[cdec[c]] # factoryYields[cdec[c]]
                   /\ StepOf(c) )
            => cpc'[c] = "fallbackOp"
         /\ fbArgs'[c] \in {<<>>, <<cargs'[c]>>}
         /\ cpc'[c] = "fallbackOp" => fbArgs'[c] = <<cargs'[c]>>
         /\ cpc[c] = "fallbackOp" /\ StepOf(c)
            => /\ lastResult'.call = c
               /\ lastResult'.msg \notin PrimaryErrors
               /\ lastResult'.kind = "ok" => lastResult'.from = "fallback"]_vars

\* a search given a sessionKey had its primary search reject and has returned the
\* fallback's result, the fallback's search having been invoked once with the same
\* query and sessionKey
C11_Witness ==
  \E c \in Callers :
    /\ cop[c] = "search" /\ cargs[c].sessionKey # None
    /\ lastError[cdec[c]] = ErrMsg(c)
    /\ cpc[c] = "resolved"
    /\ lastResult.call = c /\ lastResult.from = "fallback"
    /\ fbArgs[c] = <<cargs[c]>>

\* this step completes EngramMemoryManager.create
CreateReturns == xop = "create" /\ xop' = None

\* C12: create returns a manager or null, never raises; it returns null when the
\* health invocation could not be spawned, timed out, exited non-zero, wrote a body
\* that is not parseable JSON, or reported status.backend_available = false; and it
\* returns a manager only when the process exited 0 with a parseable body whose
\* status.backend_available is not false.
C12_Claim ==
  [][CreateReturns =>
       LET body == JsonParse(stdout) IN
       /\ xres'.kind \in {"handle", "null"}
       /\ ( \/ child = "none" \/ errored \/ timer = "fired"
            \/ exitCode # "0"
            \/ ~body.valid
            \/ body.backend_available = "false" )
          => xres'.kind = "null"
       /\ xres'.kind = "handle"
          => exitCode = "0" /\ body.valid /\ body.backend_available # "false"]_vars

\* C13: when the timer fires, SIGKILL is sent and the promise is rejected with the
\* timeout error; no later event of the invocation (its close with code 0 and a
\* complete body included) changes a settled promise; and the operation
\* completes with the timeout failure.
C13_Theorem ==
  [][/\ timer = "armed" /\ timer' = "fired"
        => killed' /\ promise' = Rejected(TimeoutMsg(xsub))
     /\ promise.state # "pending" /\ xcount' = xcount => promise' = promise
     /\ timer = "fired" /\ xop # None /\ xop' = None
        => xres' \in {OpResult(xop, "null", NoMsg), OpResult(xop, "throw", TimeoutMsg(xsub))}]_vars

\* the timer fired, then the process closed with code 0 and a complete body, and
\* the operation has completed with the timeout failure
C13_Witness ==
  /\ timer = "fired" /\ child = "closed" /\ exitCode = "0"
  /\ JsonParse(stdout) = Response("true")
  /\ xop = None /\ xres = OpResult("search", "throw", TimeoutMsg("search"))

\* C14: an invocation's promise is resolved only by the close event, and the close
\* event of a pending invocation resolves it exactly when the code is 0 and stdout
\* is a parseable JSON body; a non-zero code rejects it with stderr (or the
\* exit-code message when stderr is empty), a zero code with an unparseable body
\* rejects it as invalid JSON.
C14_Claim ==
  [][/\ promise'.state = "resolved" /\ promise.state # "resolved"
        => child = "running" /\ child' = "closed"
     /\ child = "running" /\ child' = "closed" /\ promise.state = "pending"
        => LET body == JsonParse(stdout) IN
           /\ promise'.state = "resolved" <=> exitCode' = "0" /\ body.valid
           /\ exitCode' # "0" => promise' = Rejected(ExitMsg(stderr, exitCode'))
           /\ exitCode' = "0" /\ ~body.valid => promise' = Rejected(InvalidJson)]_vars

\* the provider construction of lookup g has yielded null or raised
CreateFailed(g) == gpc[g] = "builtin" /\ createCalled[g]

\* C15: a lookup whose provider construction yields null or raises stores nothing
\* in the cache and returns what MemoryIndexManager.get gives, the builtin manager
\* unwrapped when there is one; and the next lookup issued for the same key invokes the provider
\* constructor again.
C15_Claim ==
  [][\A g \in Getters :
       /\ gpc[g] \in {"qmdCreate", "engramCreate"} /\ gpc'[g] = "builtin"
          => PRIMARY_MANAGER_CACHE' = PRIMARY_MANAGER_CACHE
       /\ CreateFailed(g) /\ gpc'[g] = "done"
          => /\ PRIMARY_MANAGER_CACHE' = PRIMARY_MANAGER_CACHE
             /\ gres'[g].manager # "wrapper"
             /\ gres'[g].manager # None => gres'[g] = Builtin
       /\ \A k \in CacheKeys \cup EngramKeys :
            IssueStep(g, k) /\ failedCreate[k] => createCalled'[g]]_vars

\* C16: every getMemorySearchManager call returns (it has no raising outcome)
\* either a manager without an error or an absent manager with an error message;
\* the latter only from the builtin construction, which runs only when no provider
\* handle was obtained, and a provider handle is always returned wrapped.
C16_Claim ==
  [][\A g \in Getters :
       gpc[g] # "done" /\ gpc'[g] = "done" =>
         /\ \/ gres'[g].manager \in {"wrapper", "builtin"} /\ gres'[g].error = NoMsg
            \/ gres'[g].manager = None /\ gres'[g].error # NoMsg
         /\ gres'[g].manager = None => gpc[g] = "builtin"
         /\ gpc[g] = "builtin" => gres'[g].manager # "wrapper"
         /\ gpc[g] \in {"qmdCreate", "engramCreate"} => gres'[g].manager = "wrapper"]_vars

\* C17: the cache keys built for two structurally equal configs, whatever the
\* insertion order of their properties at any depth (objects inside arrays
\* included), are equal, so a lookup with either config reads the entry the other
\* wrote.
C17_Theorem ==
  keyA # NoKey /\ keyB # NoKey => keyA = keyB

\* equal keys were built for two configs whose properties are in different orders
\* both at the top and inside an object nested in an array
C17_Witness ==
  /\ keyA # NoKey /\ keyA = keyB
  /\ cfgA.e[1].k # cfgB.e[1].k
  /\ \E i \in DOMAIN cfgA.e, j \in DOMAIN cfgB.e :
       /\ cfgA.e[i].k = "paths" /\ cfgB.e[j].k = "paths"
       /\ cfgA.e[i].v.t = "arr"
       /\ cfgA.e[i].v.e[1].v.e[1].k # cfgB.e[j].v.e[1].v.e[1].k

\* C18: once primaryFailed is set on a wrapper, no step invokes a method of its
\* primary: a call issued afterwards neither goes to the primary's method nor to
\* primary.close(), status() does not return the primary's status, and search's
\* catch block does not close the primary a second time.
C18_Claim ==
  [][/\ \A c \in Callers :
          cpc[c] = "idle" /\ cpc'[c] # "idle" /\ primaryFailed[cdec'[c]]
            => /\ cpc'[c] \notin {"primary", "closePrimary"}
               /\ cop'[c] = "status" => lastResult'.from # "primary"
     /\ \A d \in DecIds :
          primaryFailed[d] => degradeCloses'[d] = degradeCloses[d]]_vars

\* this step ends the method call c
Ends(c) == cpc[c] \notin {"idle", "resolved", "rejected"} /\ cpc'[c] \in {"resolved", "rejected"}

\* C19: when a close() call ends, whatever primary.close() did, the fallback (if
\* one is memoized) has been closed by it and onClose has been invoked exactly once
\* on the wrapper (a qmd wrapper: the only kind constructed with an onClose).
C19_Claim ==
  [][\A c \in Callers :
       cop[c] = "close" /\ Ends(c) =>
         /\ fallback[cdec[c]] => cpc[c] = "closeFallback"
         /\ decBackend[cdec[c]] = "qmd" => onCloseCalls'[cdec[c]] = 1]_vars

\* C20: a search on a degraded wrapper whose fallbackFactory invocation raises or
\* returns null rejects with the recorded lastError, and leaves primaryFailed set
\* and the memoized fallback as it was.
C20_Claim ==
  [][\A c \in Callers :
       cop[c] = "search" /\ cpc[c] = "factory" /\ Ends(c) =>
         /\ lastResult' = Completion(c, "search", cdec[c], Throw(lastError[cdec[c]]))
         /\ primaryFailed'[cdec[c]]
         /\ fallback'[cdec[c]] = fallback[cdec[c]]]_vars

\* C21: a readFile, sync or probe call whose primary method rejects while
\* primaryFailed is unset rejects with the primary's error and changes nothing of
\* the wrapper: primaryFailed stays unset, lastError stays absent, no fallback is
\* asked for or memoized, the primary is not closed, onClose is not invoked and the
\* cache is as it was.
C21_Theorem ==
  [][\A c \in Callers :
       ( /\ cop[c] \in DelegatingOps \ {"search"}
         /\ cpc[c] = "primary" /\ cpc'[c] # "primary"
         /\ lastResult'.kind # "ok"
         /\ ~primaryFailed[cdec[c]] )
       => /\ cpc'[c] = "rejected"
          /\ lastResult' = Completion(c, cop[c], cdec[c], Throw(ErrMsg(c)))
          /\ ~primaryFailed'[cdec[c]]
          /\ lastError'[cdec[c]] = NoMsg
          /\ <<fallback', cacheEvicted', PRIMARY_MANAGER_CACHE'>> =
               <<fallback, cacheEvicted, PRIMARY_MANAGER_CACHE>>
          /\ <<degradeCloses', onCloseCalls', factoryYields'>> =
               <<degradeCloses, onCloseCalls, factoryYields>>]_vars

\* a readFile on a cached qmd wrapper has rejected with its primary's error, and
\* the wrapper is still cached with primaryFailed unset
C21_Witness ==
  /\ lastResult.op = "readFile" /\ lastResult.kind = "throw"
  /\ lastResult.msg = ErrMsg(lastResult.call)
  /\ ~primaryFailed[lastResult.dec]
  /\ decBackend[lastResult.dec] = "qmd"
  /\ CacheGet(decKey[lastResult.dec]) = lastResult.dec

\* this step returns to lookup g the wrapper it found in the cache
CacheHit(g) ==
  /\ \E k \in CacheKeys : IssueStep(g, k)
  /\ gpc'[g] = "done"
  /\ gres'[g].manager = "wrapper" /\ ~createCalled'[g]

\* C22: after every step the cache holds no wrapper whose cacheEvicted is set,
\* and a lookup that hits the cache returns a wrapper whose cacheEvicted is unset.
C22_Theorem ==
  [][/\ \A k \in CacheKeys :
          PRIMARY_MANAGER_CACHE'[k] # 0 => ~cacheEvicted'[PRIMARY_MANAGER_CACHE'[k]]
     /\ \A g \in Getters : CacheHit(g) => ~cacheEvicted'[gres'[g].id]]_vars

\* a wrapper has evicted its entry, and a later lookup for its key has hit the
\* wrapper cached after it
C22_Witness ==
  \E d \in DecIds, g \in Getters :
    /\ cacheEvicted[d] /\ decBackend[d] = "qmd" /\ onCloseCalls[d] = 1
    /\ gpc[g] = "done" /\ ~createCalled[g] /\ gkey[g] = decKey[d]
    /\ gres[g].manager = "wrapper" /\ gres[g].id > d
    /\ CacheGet(decKey[d]) = gres[g].id

\* C23: a step that deletes a cache entry is the eviction of the wrapper the
\* entry holds: no wrapper's onClose deletes an entry that holds another wrapper.
C23_Claim ==
  [][\A k \in CacheKeys :
       PRIMARY_MANAGER_CACHE[k] # 0 /\ PRIMARY_MANAGER_CACHE'[k] = 0
         => /\ ~cacheEvicted[PRIMARY_MANAGER_CACHE[k]]
            /\ cacheEvicted'[PRIMARY_MANAGER_CACHE[k]]]_vars

\* this step returns to lookup g the wrapper it has constructed
Constructed(g) ==
  /\ gpc[g] \in {"qmdCreate", "engramCreate"} /\ gpc'[g] = "done"
  /\ gres'[g].manager = "wrapper"

\* C24: a wrapper that a lookup returns, from the cache or newly constructed, has
\* primaryFailed unset when it is returned.
C24_Claim ==
  [][\A g \in Getters :
       CacheHit(g) \/ Constructed(g) => ~primaryFailed'[gres'[g].id]]_vars

\* C25: once a wrapper has recorded lastError, no step changes it.
C25_Claim ==
  [][\A d \in DecIds : lastError[d] # NoMsg => lastError'[d] = lastError[d]]_vars

\* C26: every operation on the adapter (create with its health invocation,
\* search, readFile, sync) that has started eventually completes, with a result
\* or a failure, whatever the child does.
C26_Theorem == (xop # None) ~> (xop = None)

\* an operation has completed with the timeout failure while its child has
\* neither closed nor reported an error
C26_Witness ==
  /\ xop = None /\ xres.kind = "throw" /\ xres.msg = TimeoutMsg(xsub)
  /\ timer = "fired" /\ child = "running" /\ ~errored
====
